---- MODULE Spec2Model ----
(***************************************************************************)
(* Model of the Streamlit IFG risk stratification app (src/streamlite.py). *)
(*                                                                         *)
(* One process serves reruns of the script.  Every rerun calls the cached  *)
(* load_model(), reads the eleven sidebar widgets, and, when the Calculate *)
(* button was pressed, assembles the single-row table, runs the two        *)
(* artifacts and renders a tier and a percentage.                          *)
(*                                                                         *)
(* Representation.  Probabilities are fixed-point numbers in hundredths    *)
(* (Unit = 1.0), so 0.06*3 is 18 and 0.24*3 is 72; the multiplication by 3 *)
(* is exact in this arithmetic.  A Python number is a record [t, r]: its   *)
(* type (int or float) and its literal, so that 45 and 45.0 differ.        *)
(* The two artifacts are opaque: what transform and predict_proba do with  *)
(* a table is a choice among raising and returning any probability.        *)
(***************************************************************************)
EXTENDS Integers, Sequences, FiniteSets, TLC

VARIABLES
    files,          \* the two artifact files on disk: absent / ok / incompatible
    cache,          \* st.cache_resource's entry for load_model: <<>> or <<pair>>
    loads,          \* how many times the body of load_model has run
    joblibLog,      \* the joblib.load calls made so far, in order
    preprocessor,   \* the script global of the last rerun
    model,          \* the script global of the last rerun
    input_data,     \* the dict user_inputs() returned in the last rerun
    out,            \* what the last rerun did and rendered in the right column
    cp, cq,         \* classification harness: two scaled probabilities
    ctp, ctq        \* classification harness: their tiers

vars == <<files, cache, loads, joblibLog, preprocessor, model, input_data, out,
          cp, cq, ctp, ctq>>

appVars == <<files, cache, loads, joblibLog, preprocessor, model, input_data, out>>
harnessVars == <<cp, cq, ctp, ctq>>

----------------------------------------------------------------------------
(* Bounds and units *)

\* Fixed-point representation of the probability 1.0 (hundredths).
Unit == 100

\* Cap on executions of load_model's body (the cache keeps it at one).
MaxLoads == 2

\* The raw positive-class probabilities the classifier is made to return:
\* both ends, the neighbourhood of each threshold (0.06 and 0.24 before
\* scaling) and of 1/3, where the scaled value passes 1.0.
RawProbs == {0, 1, 5, 6, 7, 23, 24, 25, 33, 34, 50, Unit - 1, Unit}
ScaledProbs == 0..(3 * Unit)

----------------------------------------------------------------------------
(* Python values *)

None == "None"
PyInt(r) == [t |-> "int", r |-> r]
PyFloat(r) == [t |-> "float", r |-> r]
NaN == [t |-> "float", r |-> "nan"]

IsNumber(v) == v.t \in {"int", "float"}

\* The artifact objects joblib.load returns.
PreprocessorObj == "preprocessor_obj"
ModelObj == "model_obj"

PreFile == "validated_preprocessor.joblib"
ModelFile == "validated_model.joblib"
ArtifactFiles == {PreFile, ModelFile}
FileStates == {"absent", "ok", "incompatible"}

----------------------------------------------------------------------------
(* load_model and its cache *)

\* The existence check of line 34.
ArtifactMissingNoCheckModel(fs) == fs[PreFile] = "absent"
ArtifactMissing(fs) == fs[PreFile] = "absent" \/ fs[ModelFile] = "absent"

\* The body of load_model: the value returned, the joblib.load calls made,
\* the message shown, and whether an exception left the function.
\* A file that is absent at joblib.load raises FileNotFoundError, an
\* incompatible one raises another Exception; both handlers return the pair
\* of Nones.
load_model(fs) ==
    IF ArtifactMissing(fs)
    THEN [ret |-> <<None, None>>, joblib |-> <<>>,
          msg |-> "not found", escaped |-> FALSE]
    ELSE IF fs[PreFile] # "ok"
    THEN [ret |-> <<None, None>>, joblib |-> <<PreFile>>,
          msg |-> IF fs[PreFile] = "absent" THEN "not found" ELSE "load error",
          escaped |-> FALSE]
    ELSE IF fs[ModelFile] # "ok"
    THEN [ret |-> <<None, None>>, joblib |-> <<PreFile, ModelFile>>,
          msg |-> IF fs[ModelFile] = "absent" THEN "not found" ELSE "load error",
          escaped |-> FALSE]
    ELSE [ret |-> <<PreprocessorObj, ModelObj>>, joblib |-> <<PreFile, ModelFile>>,
          msg |-> "none", escaped |-> FALSE]

\* st.cache_resource: a hit returns the stored value and runs nothing; a miss
\* runs the body and stores whatever it returned, the pair of Nones included.
CacheLookupSuccessOnly(c) == IF c # <<>> /\ c[1] # <<None, None>> THEN c ELSE <<>>
CacheLookup(c) == c

cached_load_model(c, fs) ==
    IF CacheLookup(c) # <<>>
    THEN [value |-> c[1], cache |-> c, ran |-> FALSE, joblib |-> <<>>,
          escaped |-> FALSE]
    ELSE LET r == load_model(fs)
         IN  [value |-> r.ret, cache |-> <<r.ret>>, ran |-> TRUE,
              joblib |-> r.joblib, escaped |-> r.escaped]

----------------------------------------------------------------------------
(* The sidebar form *)

YesNo == {"No", "Yes"}

\* Widget states: the defaults of lines 70-78 with every answer to the two
\* select boxes of lines 80-81, and the minima and the maxima of the ranges.
DefaultVitals ==
    [age |-> "45", bmi |-> "28.5", hr |-> "72", dbp |-> "80", sbp |-> "120",
     b8 |-> "5.2", m14 |-> "95.5", d1 |-> "3", d3 |-> "5"]
MinVitals ==
    [age |-> "18", bmi |-> "10.0", hr |-> "40", dbp |-> "40", sbp |-> "70",
     b8 |-> "1.0", m14 |-> "50.0", d1 |-> "0", d3 |-> "0"]
MaxVitals ==
    [age |-> "100", bmi |-> "60.0", hr |-> "180", dbp |-> "150", sbp |-> "250",
     b8 |-> "15.0", m14 |-> "200.0", d1 |-> "7", d3 |-> "7"]

WidgetStates ==
    [vitals : {DefaultVitals}, p1 : YesNo, p13 : YesNo]
    \cup {[vitals |-> MinVitals, p1 |-> "No", p13 |-> "No"],
          [vitals |-> MaxVitals, p1 |-> "Yes", p13 |-> "Yes"]}

\* Lines 84-85: 1 for Yes, 2 for anything else.
EncodeYesNo(answer) == IF answer = "Yes" THEN PyInt("1") ELSE PyInt("2")

\* Lines 87-90: the dict, as its items in insertion order.
user_inputs(w) ==
    << <<"age", PyInt(w.vitals.age)>>, <<"bmi", PyFloat(w.vitals.bmi)>>,
       <<"HR", PyInt(w.vitals.hr)>>, <<"DBP", PyInt(w.vitals.dbp)>>,
       <<"b8", PyFloat(w.vitals.b8)>>, <<"m14", PyFloat(w.vitals.m14)>>,
       <<"SBP", PyInt(w.vitals.sbp)>>, <<"d1", PyInt(w.vitals.d1)>>,
       <<"d3", PyInt(w.vitals.d3)>>,
       <<"p1", EncodeYesNo(w.p1)>>, <<"p13", EncodeYesNo(w.p13)>> >>

DictGet(d, k) ==
    LET hits == {i \in DOMAIN d : d[i][1] = k}
    IN  IF hits = {} THEN NaN ELSE d[CHOOSE i \in hits : TRUE][2]

----------------------------------------------------------------------------
(* Table assembly *)

\* Line 114.
columns_ordered ==
    <<"p1", "p13", "age", "bmi", "HR", "DBP", "b8", "m14", "SBP", "d1", "d3">>

\* pd.DataFrame([row], columns=cols): one row, the columns cols in that order,
\* each filled from the key of the same name (NaN when the row has no such key).
DataFramePositional(row, cols) ==
    [i \in DOMAIN cols |-> <<cols[i], IF i \in DOMAIN row THEN row[i][2] ELSE NaN>>]
DataFrame(row, cols) ==
    [i \in DOMAIN cols |-> <<cols[i], DictGet(row, cols[i])>>]

\* pd.to_numeric(..., errors="coerce") on one cell of the table.  The cells
\* are the ints and floats of the form (and NaN for a missing key): an int
\* stays that int and a float that float.
to_numeric(v) ==
    CASE v.t = "int" -> v
      [] v.t = "float" -> v

\* Lines 118-119: every column of the table is coerced.
CoerceColumns(df) == [i \in DOMAIN df |-> <<df[i][1], to_numeric(df[i][2])>>]

Columns(df) == [i \in DOMAIN df |-> df[i][1]]
Cell(df, c) == df[CHOOSE i \in DOMAIN df : df[i][1] = c][2]

----------------------------------------------------------------------------
(* Scoring and classification *)

\* Lines 60-61, in hundredths: 0.06*3 and 0.24*3.
MODERATE_RISK_THRESHOLD == 6 * 3
HIGH_RISK_THRESHOLD == 24 * 3

\* Line 124: three times the positive-class probability, as it comes.
probaClamped(raw) == IF 3 * raw > Unit THEN Unit ELSE 3 * raw
probaPercent(raw) == 100 * raw
proba(raw) == 3 * raw

\* Lines 130-138.
risk_level_strict(p) ==
    IF p > HIGH_RISK_THRESHOLD THEN "High Risk"
    ELSE IF p > MODERATE_RISK_THRESHOLD THEN "Moderate Risk"
    ELSE "Low Risk"
risk_level_swapped(p) ==
    IF p >= HIGH_RISK_THRESHOLD THEN "High Risk"
    ELSE IF p >= MODERATE_RISK_THRESHOLD THEN "Low Risk"
    ELSE "Moderate Risk"
risk_level(p) ==
    IF p >= HIGH_RISK_THRESHOLD THEN "High Risk"
    ELSE IF p >= MODERATE_RISK_THRESHOLD THEN "Moderate Risk"
    ELSE "Low Risk"

\* Line 140: f"{proba:.1%}", in tenths of a percent.
FormatPercent(p) == (p * 1000) \div Unit

\* What a rerun that renders nothing in the right column leaves behind.
NoOutput ==
    [button |-> FALSE, error |-> "none", risk_level |-> None, raw |-> <<>>,
     proba |-> <<>>, metric |-> <<>>, disclaimer |-> FALSE, input_df |-> <<>>,
     transform_called |-> FALSE, predict_called |-> FALSE, stopped |-> FALSE,
     uncaught |-> FALSE]

\* What the two artifacts can do with a table: transform raises, or
\* predict_proba (or its indexing) raises, or a probability comes back.
ArtifactOutcomes ==
    {[transform |-> "raise", predict |-> "none", raw |-> 0],
     [transform |-> "ok", predict |-> "raise", raw |-> 0]}
    \cup {[transform |-> "ok", predict |-> "ok", raw |-> r] : r \in RawProbs}

NoArtifactCall == [transform |-> "none", predict |-> "none", raw |-> 0]

\* Lines 109 and 112: the two guards on the loaded pair.
ModelLoadedUnguarded(pre, mdl) == TRUE
ModelLoaded(pre, mdl) == pre # None /\ mdl # None

\* Lines 125-127: the handler reports the failure and stops the script.
ScoringFailedFallback(df, predictCalled) ==
    [NoOutput EXCEPT !.button = TRUE, !.error = "transform or predict failed",
                     !.input_df = df, !.transform_called = TRUE,
                     !.predict_called = predictCalled,
                     !.proba = <<0>>, !.risk_level = risk_level(0),
                     !.metric = <<FormatPercent(0)>>, !.disclaimer = TRUE]
ScoringFailed(df, predictCalled) ==
    [NoOutput EXCEPT !.button = TRUE, !.error = "transform or predict failed",
                     !.input_df = df, !.transform_called = TRUE,
                     !.predict_called = predictCalled, !.stopped = TRUE]

\* Lines 105-149: the right column of one rerun.  A call on None raises like
\* any other failure inside the try.
risk_assessment(calculate_button, pre, mdl, data, art) ==
    IF ~calculate_button THEN NoOutput
    ELSE IF ~ModelLoaded(pre, mdl)
    THEN [NoOutput EXCEPT !.button = TRUE, !.error = "model is not loaded"]
    ELSE LET input_df == CoerceColumns(DataFrame(data, columns_ordered))
         IN  IF pre = None \/ art.transform = "raise"
             THEN ScoringFailed(input_df, FALSE)
             ELSE IF mdl = None \/ art.predict = "raise"
             THEN ScoringFailed(input_df, TRUE)
             ELSE LET p == proba(art.raw)
                  IN  [NoOutput EXCEPT !.button = TRUE, !.input_df = input_df,
                                       !.transform_called = TRUE,
                                       !.predict_called = TRUE,
                                       !.raw = <<art.raw>>, !.proba = <<p>>,
                                       !.risk_level = risk_level(p),
                                       !.metric = <<FormatPercent(p)>>,
                                       !.disclaimer = TRUE]

----------------------------------------------------------------------------
(* The process *)

TypeOK ==
    /\ files \in [ArtifactFiles -> FileStates]
    /\ cache \in {<<>>, <<<<None, None>>>>, <<<<PreprocessorObj, ModelObj>>>>}
    /\ loads \in 0..MaxLoads
    /\ preprocessor \in {None, PreprocessorObj}
    /\ model \in {None, ModelObj}

\* The process has started and no script run has happened yet.
Init ==
    /\ files \in [ArtifactFiles -> FileStates]
    /\ cache = <<>>
    /\ loads = 0
    /\ joblibLog = <<>>
    /\ preprocessor = None
    /\ model = None
    /\ input_data = <<>>
    /\ out = NoOutput
    /\ cp = 0 /\ cq = 0
    /\ ctp = None /\ ctq = None

\* One run of the script, top to bottom, on the record data: the cached
\* load of line 50, then the right column.  The values the run leaves.
Rerun(data, calculate_button, art) ==
    LET lm == cached_load_model(cache, files)
    IN  [ran |-> lm.ran,
         cache |-> lm.cache,
         loads |-> IF lm.ran THEN loads + 1 ELSE loads,
         joblibLog |-> joblibLog \o lm.joblib,
         preprocessor |-> lm.value[1],
         model |-> lm.value[2],
         out |-> IF lm.escaped
                 THEN [NoOutput EXCEPT !.uncaught = TRUE]
                 ELSE risk_assessment(calculate_button, lm.value[1],
                                      lm.value[2], data, art)]

\* A rerun caused by anything but the Calculate button.
ViewForm ==
    \E w \in WidgetStates :
        LET r == Rerun(user_inputs(w), FALSE, NoArtifactCall)
        IN  /\ r.ran => loads < MaxLoads
            /\ cache' = r.cache
            /\ loads' = r.loads
            /\ joblibLog' = r.joblibLog
            /\ preprocessor' = r.preprocessor
            /\ model' = r.model
            /\ input_data' = user_inputs(w)
            /\ out' = r.out
            /\ UNCHANGED <<files, harnessVars>>

\* The rerun caused by pressing Calculate Risk.
CalculateRisk ==
    \E w \in WidgetStates, art \in ArtifactOutcomes :
        LET r == Rerun(user_inputs(w), TRUE, art)
        IN  /\ r.ran => loads < MaxLoads
            /\ cache' = r.cache
            /\ loads' = r.loads
            /\ joblibLog' = r.joblibLog
            /\ preprocessor' = r.preprocessor
            /\ model' = r.model
            /\ input_data' = user_inputs(w)
            /\ out' = r.out
            /\ UNCHANGED <<files, harnessVars>>

\* The operator puts, replaces or removes an artifact file.
ArtifactsChange ==
    \E f \in ArtifactFiles, s \in FileStates :
        /\ files[f] # s
        /\ files' = [files EXCEPT ![f] = s]
        /\ UNCHANGED <<cache, loads, joblibLog, preprocessor, model,
                       input_data, out, harnessVars>>

Next == ViewForm \/ CalculateRisk \/ ArtifactsChange

Spec == Init /\ [][Next]_vars

----------------------------------------------------------------------------
(* The tier classification on its own: every pair of scaled probabilities *)

ClassifyInit ==
    /\ files = [f \in ArtifactFiles |-> "absent"]
    /\ cache = <<>>
    /\ loads = 0
    /\ joblibLog = <<>>
    /\ preprocessor = None
    /\ model = None
    /\ input_data = <<>>
    /\ out = NoOutput
    /\ cp \in ScaledProbs
    /\ cq \in cp..(3 * Unit)
    /\ ctp = None /\ ctq = None

\* Lines 130-138 applied to both probabilities.
Classify ==
    /\ ctp = None
    /\ ctp' = risk_level(cp)
    /\ ctq' = risk_level(cq)
    /\ UNCHANGED <<cp, cq, appVars>>

ClassifySpec == ClassifyInit /\ [][Classify]_vars

----------------------------------------------------------------------------
(* Properties *)

Tiers == {"Low Risk", "Moderate Risk", "High Risk"}
Rank(t) == CASE t = "Low Risk" -> 0 [] t = "Moderate Risk" -> 1 [] t = "High Risk" -> 2

Scored == out.proba # <<>>
LoadFailed == cache = <<<<None, None>>>>
LoadSucceeded == cache = <<<<PreprocessorObj, ModelObj>>>>
TransformFailed == out.error = "transform or predict failed"

\* C1: every scaled probability, those above 1.0 included, gets exactly one
\* tier: High iff p >= 0.72, Moderate iff 0.18 <= p < 0.72, Low iff p < 0.18.
C1_TierThresholds ==
    ctp # None =>
        /\ ctp \in Tiers /\ ctq \in Tiers
        /\ (ctp = "High Risk") = (cp >= 72)
        /\ (ctp = "Moderate Risk") = (18 <= cp /\ cp < 72)
        /\ (ctp = "Low Risk") = (cp < 18)
        /\ (ctq = "High Risk") = (cq >= 72)
        /\ (ctq = "Moderate Risk") = (18 <= cq /\ cq < 72)
        /\ (ctq = "Low Risk") = (cq < 18)

\* 0.18 is classified Moderate, next to a probability above 1.0 classified High.
C1_Witness ==
    cp = 18 /\ ctp = "Moderate Risk" /\ cq > Unit /\ ctq = "High Risk"

\* C2: the scored probability is exactly three times the raw positive-class
\* probability, never clamped, and that same value is what is classified and
\* what is displayed.
C2_ScaledByThree ==
    Scored =>
        /\ out.raw # <<>>
        /\ out.proba[1] = 3 * out.raw[1]
        /\ (3 * out.raw[1] > Unit) = (out.proba[1] > Unit)
        /\ out.risk_level = risk_level(3 * out.raw[1])
        /\ out.metric = <<30 * out.raw[1]>>

\* A raw probability above 1/3 scored above 1.0, classified and displayed.
C2_Witness ==
    /\ out.raw = <<34>> /\ out.proba = <<102>>
    /\ out.risk_level = "High Risk" /\ out.metric = <<1020>>

\* C3 as stated: the probability of every assessment lies in [0,1] and the
\* tier is one of Low, Moderate, High.
C3_ProbabilityInUnitInterval ==
    Scored =>
        /\ 0 <= out.proba[1] /\ out.proba[1] <= Unit
        /\ out.risk_level \in Tiers

\* C3 as amended: the probability of every assessment lies in [0,3], exceeding
\* 1 exactly when the raw probability exceeds 1/3, and the tier is one of Low,
\* Moderate, High.
C3_ProbabilityInScaledInterval ==
    Scored =>
        /\ 0 <= out.proba[1] /\ out.proba[1] <= 3 * Unit
        /\ (out.proba[1] > Unit) = (3 * out.raw[1] > Unit)
        /\ out.risk_level \in Tiers

\* An assessment at the top of the scaled interval.
C3_Witness == out.proba = <<3 * Unit>> /\ out.risk_level = "High Risk"

\* C4: the body of load_model runs at most once; once an outcome is cached no
\* step changes it, runs the body or reads a file again; every rerun sees the
\* cached outcome.
C4_LoadOnce ==
    [][ /\ loads' <= 1
        /\ cache # <<>> =>
              /\ cache' = cache
              /\ loads' = loads
              /\ joblibLog' = joblibLog
        /\ cache' # <<>> => <<preprocessor', model'>> = cache'[1] ]_vars

\* A Calculate request still sees the cached failure after both files were
\* put in place.
C4_Witness ==
    /\ LoadFailed /\ loads = 1
    /\ files = [f \in ArtifactFiles |-> "ok"]
    /\ out.error = "model is not loaded"

\* C5: a load called while either file is absent returns the pair of Nones,
\* calls joblib.load on neither file and lets no exception out.
C5_MissingArtifact ==
    [][ (loads' = loads + 1
         /\ (files[PreFile] = "absent" \/ files[ModelFile] = "absent"))
        => /\ cache' = <<<<None, None>>>>
           /\ preprocessor' = None /\ model' = None
           /\ joblibLog' = joblibLog
           /\ ~out'.uncaught ]_vars

\* The load ran with the preprocessor present and the model file absent.
C5_Witness ==
    /\ loads = 1 /\ joblibLog = <<>> /\ LoadFailed
    /\ files[PreFile] = "ok" /\ files[ModelFile] = "absent"

Reverse(d) == [i \in DOMAIN d |-> d[Len(d) + 1 - i]]
Rotate(d, k) == [i \in DOMAIN d |-> d[((i + k - 1) % Len(d)) + 1]]
ConstructionOrders(d) == {Reverse(d)} \cup {Rotate(d, k) : k \in 0..(Len(d) - 1)}

\* C7: the table handed to the preprocessor has the columns p1, p13, age, bmi,
\* HR, DBP, b8, m14, SBP, d1, d3 in that order, each holding the value of the
\* record's field of the same name, whatever order the record was built in.
C7_ColumnOrder ==
    out.transform_called =>
        /\ Columns(out.input_df) =
              <<"p1", "p13", "age", "bmi", "HR", "DBP", "b8", "m14", "SBP", "d1", "d3">>
        /\ \A j \in DOMAIN input_data :
              \E i \in DOMAIN out.input_df : out.input_df[i] = input_data[j]
        /\ \A d \in ConstructionOrders(input_data) :
              CoerceColumns(DataFrame(d, columns_ordered)) = out.input_df

\* The default patient's table: the encoded answers first, the age third.
C7_Witness ==
    /\ out.transform_called
    /\ out.input_df[1] = <<"p1", PyInt("1")>>
    /\ out.input_df[2] = <<"p13", PyInt("2")>>
    /\ out.input_df[3] = <<"age", PyInt("45")>>
    /\ out.input_df[11] = <<"d3", PyInt("5")>>

\* C8: for two scaled probabilities p < q the tier of p ranks no higher than
\* the tier of q.
C8_Monotone ==
    (ctp # None /\ cp < cq) => Rank(ctp) <= Rank(ctq)

\* A pair classified Low and High.
C8_Witness == cp < cq /\ ctp = "Low Risk" /\ ctq = "High Risk"

\* A Calculate rerun that ends with a probability rendered.
ScoredRequest == CalculateRisk /\ out'.proba # <<>>

\* C9: a request in which transform or predict_proba raised shows the error,
\* renders no tier and no probability and lets no exception out; the cached
\* pair is the one it found, and a later request can be scored with it.
C9_TransformFailed ==
    /\ [](TransformFailed =>
            /\ out.risk_level = None /\ out.proba = <<>> /\ out.metric = <<>>
            /\ ~out.disclaimer /\ out.stopped /\ ~out.uncaught
            /\ LoadSucceeded
            /\ ENABLED ScoredRequest)
    /\ [][ (cache # <<>> /\ out'.error = "transform or predict failed")
           => cache' = cache ]_vars

\* predict_proba raised on a transformed table.
C9_Witness == TransformFailed /\ out.predict_called /\ out.stopped

\* C10: after a failed load every Calculate request reports that the model is
\* not loaded and assembles, transforms, predicts and classifies nothing; a
\* tier is rendered only with both artifacts loaded.
C10_ModelNotLoaded ==
    /\ (out.button /\ LoadFailed) =>
          /\ out.error = "model is not loaded"
          /\ out.input_df = <<>>
          /\ ~out.transform_called /\ ~out.predict_called
          /\ out.risk_level = None /\ out.proba = <<>>
    /\ out.risk_level # None =>
          /\ LoadSucceeded
          /\ preprocessor = PreprocessorObj /\ model = ModelObj

\* A Calculate request after a load that failed on an incompatible artifact.
C10_Witness ==
    /\ out.button /\ LoadFailed /\ joblibLog # <<>>
    /\ out.error = "model is not loaded"

====
